---- MODULE Spec2Model ----
\* Model of the two command-line programs of the repository:
\*   Apps/transcribe.py  the transcriber (variables prefixed t_, api_, temp_)
\*   Apps/record.py      the recorder    (variables prefixed r_, recording_process)
\* A behaviour is one run of one of the two programs; the program that is
\* not run stays at "off".
EXTENDS Integers, FiniteSets, Sequences, TLC

----------------------------------------------------------------------------
(* Bounds of the model *)

\* modification times of directory entries are 1..MaxMtime (0 = no such file)
MaxMtime == 2
\* file sizes are taken this close on both sides of the ceiling
SizeSpread == 1
\* a time limit typed at the prompt is at most this many minutes
MaxMinutes == 2
\* the clock runs at most this many seconds before wait() is entered, and
\* this many past the end of its timeout
MaxDelay == 1
\* SIGINT/SIGTERM deliveries in one run
MaxSignals == 2

----------------------------------------------------------------------------
(* transcribe.py: constants and pure functions *)

SUPPORTED_FORMATS == {".mp3", ".mp4", ".mpeg", ".mpga", ".m4a", ".wav", ".webm"}

MAX_FILE_SIZE == 25 * 1024 * 1024

\* a path is its stem and its suffix; NoPath stands for Python's None
NoPath == [stem |-> "", ext |-> ""]

\* the entries a directory may hold, and the values of the file argument
Paths == { [stem |-> "a", ext |-> ".wav"],
           [stem |-> "b", ext |-> ".mp3"],
           [stem |-> "c", ext |-> ".WAV"],
           [stem |-> "d", ext |-> ".ogg"] }

\* the name tempfile.NamedTemporaryFile(suffix=".mp3") hands out
TempPath == [stem |-> "tmp", ext |-> ".mp3"]

\* the stems a .txt file may have
Stems == { p.stem : p \in Paths \cup {TempPath} }

\* sizes st_size may report
Sizes == {0, 1} \cup ((MAX_FILE_SIZE - SizeSpread) .. (MAX_FILE_SIZE + SizeSpread))

\* texts the API may return, and the content of a transcript that was
\* already there before the run; NoText = no such file
NoText == "<none>"
OldText == "<old>"
Texts == {"hallo", "welt"}

\* str.lower() on the suffixes of Paths
Lower(s) == IF s = ".WAV" THEN ".wav" ELSE s

\* Path.with_suffix
with_suffix(p, s) == [stem |-> p.stem, ext |-> s]

\* mutant: every suffix is accepted
UnsupportedFormatNever(p) == FALSE

\* line 197: file_path.suffix.lower() not in SUPPORTED_FORMATS
UnsupportedFormat(p) == Lower(p.ext) \notin SUPPORTED_FORMATS

\* mutant: the empty-file check is missing
IsEmptyFileNever(size) == FALSE

\* line 206: file_size == 0
IsEmptyFile(size) == size = 0

\* mutant: >= instead of >
NeedsConversionAtCeiling(size) == size >= MAX_FILE_SIZE

\* line 224: file_size > MAX_FILE_SIZE
NeedsConversion(size) == size > MAX_FILE_SIZE

\* mutant: the size of the transcoded file is not checked
StillTooLargeNever(size) == FALSE

\* line 239: temp_size > MAX_FILE_SIZE
StillTooLarge(size) == size > MAX_FILE_SIZE

\* lines 96-98: directory.glob("*" + ext) for every supported ext; the match
\* is case-sensitive
GlobAudioFiles(d) == { p \in Paths : d[p] # 0 /\ p.ext \in SUPPORTED_FORMATS }

\* mutant: the sort is not reversed, the oldest file comes first
OldestCandidates(d) ==
    { p \in { q \in Paths : d[q] # 0 /\ q.ext \in SUPPORTED_FORMATS } :
        \A q \in Paths :
          (d[q] # 0 /\ q.ext \in SUPPORTED_FORMATS) => d[p] <= d[q] }

\* lines 104-105: sort by st_mtime, newest first, and take the first. Files
\* of equal mtime keep the order glob produced them in, which depends on the
\* iteration order of a set of strings and of the directory: any of them
\* may come first.
LatestCandidates(d) ==
    { p \in GlobAudioFiles(d) : \A q \in GlobAudioFiles(d) : d[p] >= d[q] }

\* mutant: the temporary file is never removed after the API call
UnlinkTempNever(tf, exists) == exists

\* lines 251-252 and 256-257: if temp_file: Path(temp_file.name).unlink(missing_ok=True)
\* gives whether the temporary file exists afterwards
UnlinkTemp(tf, exists) == IF tf # NoPath THEN FALSE ELSE exists

\* mutant: the transcript is named after the file that was submitted
TranscriptPathOfSubmitted(fp, tp) == [stem |-> tp.stem, ext |-> ".txt"]

\* line 260: txt_path = file_path.with_suffix(".txt")
TranscriptPath(fp, tp) == with_suffix(fp, ".txt")

----------------------------------------------------------------------------
(* record.py: pure functions *)

NoSource == "<none>"
NoProcess == "None"

\* lines typed at a prompt: one character each
Digits == <<"0", "1", "2", "3", "4", "5", "6", "7", "8", "9">>

\* int(s) raises ValueError unless s is a number
IsInt(s) == \E i \in 1..10 : Digits[i] = s

\* int(s)
ToInt(s) == (CHOOSE i \in 1..10 : Digits[i] = s) - 1

\* what get_audio_sources (68-164) may return: the target names found
SourceLists == { <<>>, <<"alsa_output.monitor", "alsa_input">> }

SourceInputs == {"", "0", "1", "7", "x"}
ModeInputs == {"", "0", "1", "2", "x"}
DurationInputs == {"x"} \cup { Digits[i + 1] : i \in 0..MaxMinutes }

\* mutant: the minutes are passed to wait() as seconds
timeout_minutes_as_seconds(minutes) == minutes

\* line 318: timeout_seconds = duration_minutes * 60
timeout_seconds(minutes) == minutes * 60

\* Popen.poll() inside Popen.send_signal(): whether it collects an exited
\* child. It does not while the main flow is blocked in wait() without
\* timeout, which holds the handle's waitpid lock (lines 324, 326).
PollReaps(pc, child) == child = "zombie" /\ pc \notin {"wait", "wait_final"}

\* mutant: the signal is sent without looking at the return code
SendsKillAlways(pc, child, returncode) == TRUE

\* Popen.terminate(): os.kill(pid, SIGTERM) is called unless the handle
\* already has a return code (after the poll above)
SendsKill(pc, child, returncode) ==
    returncode = "None" /\ ~PollReaps(pc, child)

\* positions of main at which input() is waiting
PromptPcs == {"ask_source", "ask_mode", "ask_duration"}

----------------------------------------------------------------------------
VARIABLES
    \* transcriber: environment
    api_key,          \* whether OPENAI_API_KEY is set
    args_file,        \* the file argument, NoPath when absent
    dir_exists,       \* whether the search directory exists
    dir,              \* Paths -> mtime of the entry, 0 when absent
    transcripts,      \* Stems -> content of <stem>.txt, NoText when absent
    temp_exists,      \* whether the temporary file exists on disk
    \* transcriber: program state
    t_pc,
    file_path,
    file_size,
    transcribe_path,
    temp_file,
    temp_size,
    text,
    t_exit,           \* exit code, -1 while running
    \* transcriber: history
    t_converted,      \* "no", "ok", "failed": outcome of convert_to_mp3
    api_calls,        \* sequence of the paths submitted
    api_result,       \* "none", "ok", "error"
    \* recorder: program state
    r_pc,
    args_source,       \* the --source argument, NoSource when absent
    sources,           \* result of get_audio_sources
    source,
    duration_minutes,  \* 0 stands for None
    recording_process, \* the global slot: NoProcess or "Popen"
    r_returncode,      \* the handle's returncode: "None" or "set"
    r_deadline,        \* end time of wait(timeout=...), -1 when none
    r_exit,            \* exit code, -1 while running
    \* recorder: environment
    r_child,           \* "none", "running", "zombie" (exited), "reaped"
    r_now,             \* seconds since the child was launched (time-limited mode)
    \* recorder: history
    r_which,           \* "unknown", "found", "missing": result of `which parecord`
    r_popen,           \* "none", "ok", "notfound", "error": outcome of Popen
    r_signals,         \* signals delivered
    r_kills,           \* SIGTERM sent to the child
    r_sig_pcs,         \* the positions of main at which a signal was delivered
    r_limit_at,        \* r_now when line 323 ran, -1 before
    r_limit_running,   \* the child was running when line 323 ran
    r_reported         \* "Aufnahme beendet" was logged

tvars == <<api_key, args_file, dir_exists, dir, transcripts, temp_exists,
           t_pc, file_path, file_size, transcribe_path, temp_file, temp_size,
           text, t_exit, t_converted, api_calls, api_result>>

rvars == <<r_pc, args_source, sources, source, duration_minutes,
           recording_process, r_returncode, r_deadline, r_exit, r_child, r_now,
           r_which, r_popen, r_signals, r_kills, r_sig_pcs, r_limit_at,
           r_limit_running, r_reported>>

vars == <<tvars, rvars>>

----------------------------------------------------------------------------
(* transcribe.py: main *)

TEnv == <<api_key, args_file, dir_exists, dir>>

TInit ==
    /\ api_key \in BOOLEAN
    /\ args_file \in Paths \cup {NoPath}
    /\ dir_exists \in BOOLEAN
    /\ dir \in [Paths -> 0..MaxMtime]
    /\ (~dir_exists => \A p \in Paths : dir[p] = 0)
    /\ transcripts \in { [s \in Stems |-> NoText], [s \in Stems |-> OldText] }
    /\ temp_exists = FALSE
    /\ t_pc = "start"
    /\ file_path = NoPath
    /\ file_size = -1
    /\ transcribe_path = NoPath
    /\ temp_file = NoPath
    /\ temp_size = -1
    /\ text = NoText
    /\ t_exit = -1
    /\ t_converted = "no"
    /\ api_calls = <<>>
    /\ api_result = "none"

\* the transcriber is not the program that runs
TOff ==
    /\ api_key = FALSE
    /\ args_file = NoPath
    /\ dir_exists = FALSE
    /\ dir = [p \in Paths |-> 0]
    /\ transcripts = [s \in Stems |-> NoText]
    /\ temp_exists = FALSE
    /\ t_pc = "off"
    /\ file_path = NoPath
    /\ file_size = -1
    /\ transcribe_path = NoPath
    /\ temp_file = NoPath
    /\ temp_size = -1
    /\ text = NoText
    /\ t_exit = -1
    /\ t_converted = "no"
    /\ api_calls = <<>>
    /\ api_result = "none"

\* sys.exit(code)
TExit(code) == t_pc' = "exited" /\ t_exit' = code

\* lines 169-174
CheckApiKey ==
    /\ t_pc = "start"
    /\ IF ~api_key THEN TExit(1) ELSE t_pc' = "resolve" /\ UNCHANGED t_exit
    /\ UNCHANGED rvars
    /\ UNCHANGED <<TEnv, transcripts, temp_exists, file_path, file_size,
                   transcribe_path, temp_file, temp_size, text, t_converted,
                   api_calls, api_result>>

\* lines 177-178
ResolveExplicit ==
    /\ t_pc = "resolve"
    /\ args_file # NoPath
    /\ file_path' = args_file
    /\ t_pc' = "validate"
    /\ UNCHANGED rvars
    /\ UNCHANGED <<TEnv, transcripts, temp_exists, file_size, transcribe_path,
                   temp_file, temp_size, text, t_exit, t_converted, api_calls,
                   api_result>>

\* lines 179-190
ResolveLatest ==
    /\ t_pc = "resolve"
    /\ args_file = NoPath
    /\ IF ~dir_exists
         THEN TExit(1) /\ UNCHANGED file_path
         ELSE IF GlobAudioFiles(dir) = {}
                THEN TExit(1) /\ UNCHANGED file_path
                ELSE /\ \E p \in LatestCandidates(dir) : file_path' = p
                     /\ t_pc' = "validate"
                     /\ UNCHANGED t_exit
    /\ UNCHANGED rvars
    /\ UNCHANGED <<TEnv, transcripts, temp_exists, file_size, transcribe_path,
                   temp_file, temp_size, text, t_converted, api_calls,
                   api_result>>

\* lines 192-208: exists, suffix, st_size, empty
ValidateFile ==
    /\ t_pc = "validate"
    /\ IF dir[file_path] = 0
         THEN TExit(1) /\ UNCHANGED file_size
         ELSE IF UnsupportedFormat(file_path)
                THEN TExit(1) /\ UNCHANGED file_size
                ELSE \E sz \in Sizes :
                       /\ file_size' = sz
                       /\ IF IsEmptyFile(sz)
                            THEN TExit(1)
                            ELSE t_pc' = "prepare" /\ UNCHANGED t_exit
    /\ UNCHANGED rvars
    /\ UNCHANGED <<TEnv, transcripts, temp_exists, file_path, transcribe_path,
                   temp_file, temp_size, text, t_converted, api_calls,
                   api_result>>

\* lines 221-230: transcribe_path = file_path; the temporary file is created
\* when the file is over the ceiling
PrepareFile ==
    /\ t_pc = "prepare"
    /\ transcribe_path' = file_path
    /\ IF NeedsConversion(file_size)
         THEN /\ temp_file' = TempPath
              /\ temp_exists' = TRUE
              /\ t_pc' = "convert"
         ELSE /\ UNCHANGED <<temp_file, temp_exists>>
              /\ t_pc' = "submit"
    /\ UNCHANGED rvars
    /\ UNCHANGED <<TEnv, transcripts, file_path, file_size, temp_size, text,
                   t_exit, t_converted, api_calls, api_result>>

\* lines 232-234 with convert_to_mp3 (59-91): ffmpeg fails or is missing
ConvertFails ==
    /\ t_pc = "convert"
    /\ t_converted' = "failed"
    /\ temp_exists' = FALSE
    /\ TExit(1)
    /\ UNCHANGED rvars
    /\ UNCHANGED <<TEnv, transcripts, file_path, file_size, transcribe_path,
                   temp_file, temp_size, text, api_calls, api_result>>

\* lines 232-244: ffmpeg succeeds; the size of its output is checked
ConvertSucceeds ==
    /\ t_pc = "convert"
    /\ t_converted' = "ok"
    /\ \E sz \in Sizes :
         /\ temp_size' = sz
         /\ IF StillTooLarge(sz)
              THEN /\ temp_exists' = FALSE
                   /\ TExit(1)
                   /\ UNCHANGED transcribe_path
              ELSE /\ transcribe_path' = temp_file
                   /\ t_pc' = "submit"
                   /\ UNCHANGED <<temp_exists, t_exit>>
    /\ UNCHANGED rvars
    /\ UNCHANGED <<TEnv, transcripts, file_path, file_size, temp_file, text,
                   api_calls, api_result>>

\* lines 247-248 and 254-257: the API call returns, then the finally clause
TranscribeOk ==
    /\ t_pc = "submit"
    /\ api_calls' = Append(api_calls, transcribe_path)
    /\ api_result' = "ok"
    /\ \E t \in Texts : text' = t
    /\ temp_exists' = UnlinkTemp(temp_file, temp_exists)
    /\ t_pc' = "save"
    /\ UNCHANGED rvars
    /\ UNCHANGED <<TEnv, transcripts, file_path, file_size, transcribe_path,
                   temp_file, temp_size, t_exit, t_converted>>

\* lines 247-257: the API call raises; except clause, then the finally clause
TranscribeFails ==
    /\ t_pc = "submit"
    /\ api_calls' = Append(api_calls, transcribe_path)
    /\ api_result' = "error"
    /\ temp_exists' = UnlinkTemp(temp_file, UnlinkTemp(temp_file, temp_exists))
    /\ TExit(1)
    /\ UNCHANGED rvars
    /\ UNCHANGED <<TEnv, transcripts, file_path, file_size, transcribe_path,
                   temp_file, temp_size, text, t_converted>>

\* lines 259-268
SaveTranscript ==
    /\ t_pc = "save"
    /\ transcripts' =
         [transcripts EXCEPT ![TranscriptPath(file_path, transcribe_path).stem] = text]
    /\ TExit(0)
    /\ UNCHANGED rvars
    /\ UNCHANGED <<TEnv, temp_exists, file_path, file_size, transcribe_path,
                   temp_file, temp_size, text, t_converted, api_calls,
                   api_result>>

----------------------------------------------------------------------------
(* record.py: main and signal_handler *)

RProc == <<recording_process, r_returncode, r_child, r_kills>>
RSig == <<r_signals, r_sig_pcs>>
RLimit == <<r_limit_at, r_limit_running>>
RTime == <<r_now, r_deadline>>
RChoice == <<args_source, sources, source, duration_minutes>>
RChecks == <<r_which, r_popen>>

RVarsInit(pc) ==
    /\ r_pc = pc
    /\ sources = <<>>
    /\ source = NoSource
    /\ duration_minutes = 0
    /\ recording_process = NoProcess
    /\ r_returncode = "None"
    /\ r_deadline = -1
    /\ r_exit = -1
    /\ r_child = "none"
    /\ r_now = 0
    /\ r_which = "unknown"
    /\ r_popen = "none"
    /\ r_signals = 0
    /\ r_kills = 0
    /\ r_sig_pcs = {}
    /\ r_limit_at = -1
    /\ r_limit_running = FALSE
    /\ r_reported = FALSE

RInit ==
    /\ args_source \in {NoSource, "alsa_input"}
    /\ RVarsInit("start")

\* the recorder is not the program that runs
ROff ==
    /\ args_source = NoSource
    /\ RVarsInit("off")

\* sys.exit(code)
RExit(code) == r_pc' = "exited" /\ r_exit' = code

\* lines 250-259: the handlers replace Python's default SIGINT handler, so
\* from here on no KeyboardInterrupt is raised
RegisterHandlers ==
    /\ r_pc = "start"
    /\ r_pc' = "check_tool"
    /\ UNCHANGED <<RChoice, RProc, RSig, RLimit, RTime, RChecks, r_exit,
                   r_reported>>
    /\ UNCHANGED tvars

\* lines 261-266
CheckParecord ==
    /\ r_pc = "check_tool"
    /\ \E found \in BOOLEAN :
         /\ r_which' = IF found THEN "found" ELSE "missing"
         /\ IF ~found THEN RExit(1) ELSE r_pc' = "source" /\ UNCHANGED r_exit
    /\ UNCHANGED <<RChoice, RProc, RSig, RLimit, RTime, r_popen, r_reported>>
    /\ UNCHANGED tvars

\* lines 268-275
DetermineSource ==
    /\ r_pc = "source"
    /\ IF args_source # NoSource
         THEN /\ source' = args_source
              /\ r_pc' = "ask_mode"
              /\ UNCHANGED <<sources, r_exit>>
         ELSE \E l \in SourceLists :
                /\ sources' = l
                /\ IF l = <<>>
                     THEN RExit(1)
                     ELSE r_pc' = "ask_source" /\ UNCHANGED r_exit
                /\ UNCHANGED source
    /\ UNCHANGED <<args_source, duration_minutes, RProc, RSig, RLimit, RTime,
                   RChecks, r_reported>>
    /\ UNCHANGED tvars

\* lines 175-185: one line read by ask_audio_source
AskAudioSource ==
    /\ r_pc = "ask_source"
    /\ \E choice \in SourceInputs :
         IF choice = ""
           THEN source' = sources[1] /\ r_pc' = "ask_mode"
           ELSE IF IsInt(choice) /\ 0 <= ToInt(choice) /\ ToInt(choice) < Len(sources)
                  THEN source' = sources[ToInt(choice) + 1] /\ r_pc' = "ask_mode"
                  ELSE UNCHANGED <<source, r_pc>>
    /\ UNCHANGED <<args_source, sources, duration_minutes, RProc, RSig, RLimit,
                   RTime, RChecks, r_exit, r_reported>>
    /\ UNCHANGED tvars

\* lines 202-209: one line read by ask_recording_mode
AskRecordingMode ==
    /\ r_pc = "ask_mode"
    /\ \E choice \in ModeInputs :
         IF choice = "" \/ choice = "0"
           THEN r_pc' = "launch"
           ELSE IF choice = "1"
                  THEN r_pc' = "ask_duration"
                  ELSE UNCHANGED r_pc
    /\ UNCHANGED <<RChoice, RProc, RSig, RLimit, RTime, RChecks, r_exit,
                   r_reported>>
    /\ UNCHANGED tvars

\* lines 217-225: one line read by ask_duration_minutes
AskDurationMinutes ==
    /\ r_pc = "ask_duration"
    /\ \E minutes_str \in DurationInputs :
         IF IsInt(minutes_str) /\ ToInt(minutes_str) > 0
           THEN duration_minutes' = ToInt(minutes_str) /\ r_pc' = "launch"
           ELSE UNCHANGED <<duration_minutes, r_pc>>
    /\ UNCHANGED <<args_source, sources, source, RProc, RSig, RLimit, RTime,
                   RChecks, r_exit, r_reported>>
    /\ UNCHANGED tvars

\* lines 298-314, inside subprocess.Popen: the child is started, or Popen
\* raises (lines 346-352)
StartChild ==
    /\ r_pc = "launch"
    /\ \E outcome \in {"ok", "notfound", "error"} :
         /\ r_popen' = outcome
         /\ IF outcome = "ok"
              THEN /\ r_child' = "running"
                   /\ r_pc' = "spawned"
                   /\ UNCHANGED r_exit
              ELSE /\ RExit(1)
                   /\ UNCHANGED r_child
    /\ UNCHANGED <<RChoice, recording_process, r_returncode, r_kills, RSig,
                   RLimit, RTime, r_which, r_reported>>
    /\ UNCHANGED tvars

\* line 310: Popen has returned and its result is stored in the global
StoreHandle ==
    /\ r_pc = "spawned"
    /\ recording_process' = "Popen"
    /\ r_pc' = "begin_wait"
    /\ UNCHANGED <<RChoice, r_returncode, r_child, r_kills, RSig, RLimit,
                   RTime, RChecks, r_exit, r_reported>>
    /\ UNCHANGED tvars

\* lines 317-320 and 325-326: wait is entered, with or without timeout
BeginWait ==
    /\ r_pc = "begin_wait"
    /\ IF duration_minutes # 0
         THEN /\ r_deadline' = r_now + timeout_seconds(duration_minutes)
              /\ r_pc' = "wait_timed"
         ELSE /\ r_pc' = "wait"
              /\ UNCHANGED r_deadline
    /\ UNCHANGED <<RChoice, RProc, RSig, RLimit, r_now, RChecks, r_exit,
                   r_reported>>
    /\ UNCHANGED tvars

\* lines 320, 324, 326: wait returns once the child has exited
WaitReturns ==
    /\ r_pc \in {"wait", "wait_timed", "wait_final"}
    /\ r_returncode = "set" \/ r_child = "zombie"
    /\ r_child' = "reaped"
    /\ r_returncode' = "set"
    /\ r_pc' = "report"
    /\ UNCHANGED <<RChoice, recording_process, r_kills, RSig, RLimit, RTime,
                   RChecks, r_exit, r_reported>>
    /\ UNCHANGED tvars

\* lines 320-322: the timeout expires with the child still running
WaitTimeout ==
    /\ r_pc = "wait_timed"
    /\ r_now >= r_deadline
    /\ r_child = "running"
    /\ r_pc' = "timeout"
    /\ UNCHANGED <<RChoice, RProc, RSig, RLimit, RTime, RChecks, r_exit,
                   r_reported>>
    /\ UNCHANGED tvars

\* Popen.terminate() on the handle in the slot
Terminate ==
    IF PollReaps(r_pc, r_child)
      THEN /\ r_child' = "reaped"
           /\ r_returncode' = "set"
           /\ UNCHANGED r_kills
      ELSE IF SendsKill(r_pc, r_child, r_returncode)
             THEN /\ r_kills' = r_kills + 1
                  /\ UNCHANGED <<r_child, r_returncode>>
             ELSE UNCHANGED <<r_child, r_returncode, r_kills>>

\* line 323
LimitTerminate ==
    /\ r_pc = "timeout"
    /\ r_limit_at' = r_now
    /\ r_limit_running' = (r_child = "running")
    /\ Terminate
    /\ r_pc' = "wait_final"
    /\ UNCHANGED <<RChoice, recording_process, RSig, RTime, RChecks, r_exit,
                   r_reported>>
    /\ UNCHANGED tvars

\* lines 328-344 and 354
Report ==
    /\ r_pc = "report"
    /\ r_reported' = TRUE
    /\ RExit(0)
    /\ UNCHANGED <<RChoice, RProc, RSig, RLimit, RTime, RChecks>>
    /\ UNCHANGED tvars

\* lines 42-47: signal_handler, run for a SIGINT or SIGTERM delivered once
\* the handlers are registered
SignalHandler ==
    /\ r_pc \notin {"off", "start", "exited"}
    /\ r_signals < MaxSignals
    /\ r_signals' = r_signals + 1
    /\ r_sig_pcs' = r_sig_pcs \cup {r_pc}
    /\ IF recording_process # NoProcess
         THEN Terminate
         ELSE UNCHANGED <<r_child, r_returncode, r_kills>>
    /\ UNCHANGED <<RChoice, recording_process, RLimit, RTime, RChecks, r_pc,
                   r_exit, r_reported>>
    /\ UNCHANGED tvars

\* the child process ends: by itself, or because it was sent SIGTERM
ChildExits ==
    /\ r_child = "running"
    /\ r_child' = "zombie"
    /\ UNCHANGED <<RChoice, recording_process, r_returncode, r_kills, RSig,
                   RLimit, RTime, RChecks, r_pc, r_exit, r_reported>>
    /\ UNCHANGED tvars

\* a second of wall-clock time passes during a time-limited recording
Tick ==
    /\ r_child \in {"running", "zombie"}
    /\ duration_minutes # 0
    /\ r_now < (IF r_deadline = -1 THEN MaxDelay ELSE r_deadline + MaxDelay)
    /\ r_now' = r_now + 1
    /\ UNCHANGED <<RChoice, RProc, RSig, RLimit, r_deadline, RChecks, r_pc,
                   r_exit, r_reported>>
    /\ UNCHANGED tvars

----------------------------------------------------------------------------
Init == (TInit /\ ROff) \/ (TOff /\ RInit)

Next ==
    \/ CheckApiKey
    \/ ResolveExplicit
    \/ ResolveLatest
    \/ ValidateFile
    \/ PrepareFile
    \/ ConvertFails
    \/ ConvertSucceeds
    \/ TranscribeOk
    \/ TranscribeFails
    \/ SaveTranscript
    \/ RegisterHandlers
    \/ CheckParecord
    \/ DetermineSource
    \/ AskAudioSource
    \/ AskRecordingMode
    \/ AskDurationMinutes
    \/ StartChild
    \/ StoreHandle
    \/ BeginWait
    \/ WaitReturns
    \/ WaitTimeout
    \/ LimitTerminate
    \/ Report
    \/ SignalHandler
    \/ ChildExits
    \/ Tick

Spec == Init /\ [][Next]_vars

----------------------------------------------------------------------------
(* Properties *)

\* the transcriber has passed line 221: the job is validated
Prepared == transcribe_path # NoPath

C2_AsStated ==
    api_calls # <<>> =>
        /\ file_size < MAX_FILE_SIZE =>
             (temp_file = NoPath /\ t_converted = "no" /\ api_calls = <<file_path>>)
        /\ file_size >= MAX_FILE_SIZE =>
             (temp_file # NoPath /\ t_converted = "ok" /\ api_calls = <<temp_file>>)

\* C2 amended: at or below the ceiling there is no transcoding and the
\* original is what gets submitted; strictly above the ceiling a temporary
\* file is created, and what gets submitted is the transcoded temporary file
C2_TranscodeOnlyAboveCeiling ==
    /\ (Prepared /\ t_pc # "prepare" /\ file_size <= MAX_FILE_SIZE) =>
         (temp_file = NoPath /\ t_converted = "no")
    /\ (Prepared /\ t_pc # "prepare" /\ file_size > MAX_FILE_SIZE) =>
         (temp_file = TempPath /\ temp_file # file_path)
    /\ api_calls # <<>> =>
         /\ file_size <= MAX_FILE_SIZE => api_calls = <<file_path>>
         /\ file_size > MAX_FILE_SIZE =>
              (t_converted = "ok" /\ api_calls = <<temp_file>>)

\* C2 witness: a file over the ceiling whose transcoded copy was submitted
C2_Witness ==
    /\ file_size > MAX_FILE_SIZE
    /\ api_calls = <<TempPath>>

\* C3: when the input file has size 0 the run ends with a non-zero exit code
\* and has made no transcoding step and no API call
C3_EmptyFileRejected ==
    file_size = 0 =>
        /\ t_pc = "exited"
        /\ t_exit > 0
        /\ t_converted = "no"
        /\ temp_file = NoPath
        /\ api_calls = <<>>
        /\ api_result = "none"

\* C3 witness: a run that measured size 0 and has exited
C3_Witness == file_size = 0 /\ t_pc = "exited" /\ t_exit = 1

\* C4 as stated: every signal delivered while the child is running sends a
\* terminate request to the child
C4_SignalTerminatesChild ==
    [][(r_signals' = r_signals + 1 /\ r_child = "running")
         => r_kills' = r_kills + 1]_vars

\* C5: in a time-limited recording without interrupt, the child is sent the
\* terminate request by the recorder only once M*60 seconds have passed since
\* its launch, it is sent it if it is still running then, and the end of the
\* recording is reported only after the child has exited and been waited for
C5_TimeLimit ==
    /\ r_limit_at # -1 =>
         (duration_minutes > 0 /\ r_limit_at >= duration_minutes * 60)
    /\ (r_signals = 0 /\ r_kills > 0) =>
         (r_limit_at # -1 /\ r_now >= duration_minutes * 60)
    /\ (r_signals = 0 /\ r_limit_at # -1 /\ r_limit_running) => r_kills = 1
    /\ (r_pc = "report" \/ r_reported) => r_child = "reaped"

\* C5 witness: a time-limited run without interrupt that terminated the
\* running child at the limit and has reported the end of the recording
C5_Witness ==
    /\ r_reported
    /\ r_signals = 0
    /\ r_limit_at # -1
    /\ r_limit_running
    /\ r_kills = 1

\* the fatal precondition failures of the transcriber, from what the run
\* was given and what it measured
TFatal ==
    \/ ~api_key
    \/ args_file # NoPath /\ dir[args_file] = 0
    \/ args_file = NoPath /\ ~dir_exists
    \/ args_file = NoPath /\ \A p \in Paths : dir[p] # 0 => p.ext \notin SUPPORTED_FORMATS
    \/ args_file # NoPath /\ Lower(args_file.ext) \notin SUPPORTED_FORMATS
    \/ file_size = 0
    \/ t_converted = "failed"
    \/ temp_size > MAX_FILE_SIZE

\* the fatal precondition failures of the recorder
RFatal ==
    \/ r_which = "missing"
    \/ r_which = "found" /\ args_source = NoSource /\ sources = <<>>
    \/ r_popen \in {"notfound", "error"}

\* C6: a run that hit a fatal precondition failure exits with code 1, and a
\* run exits with code 0 only after normal completion
C6_ExitCodes ==
    /\ t_pc = "exited" => t_exit \in {0, 1}
    /\ r_pc = "exited" => r_exit \in {0, 1}
    /\ (t_pc = "exited" /\ TFatal) => t_exit = 1
    /\ (r_pc = "exited" /\ RFatal) => r_exit = 1
    /\ t_exit = 0 => (api_result = "ok" /\ transcripts[file_path.stem] = text)
    /\ r_exit = 0 => (r_popen = "ok" /\ r_reported /\ r_child = "reaped")

\* C6 witness: the recorder found no audio source and has exited with code 1
C6_Witness ==
    /\ r_pc = "exited"
    /\ r_exit = 1
    /\ r_which = "found"
    /\ args_source = NoSource
    /\ sources = <<>>

\* C7: the transcript is written only after the API call returned, to the
\* path of the original input with suffix .txt and with the returned text; a
\* run whose API call returned ends having written it; when the API call
\* fails no transcript is created or modified and the exit code is not 0
C7_TranscriptIffApiOk ==
    /\ [](api_result = "error" => (t_pc = "exited" /\ t_exit > 0))
    /\ []((t_pc = "exited" /\ api_result = "ok") =>
            (t_exit = 0 /\ transcripts[file_path.stem] = text))
    /\ [][transcripts' # transcripts =>
            /\ api_result = "ok"
            /\ api_result' = "ok"
            /\ transcripts' = [transcripts EXCEPT ![file_path.stem] = text]]_vars

\* C7 witness: the transcoded file was submitted and the transcript was
\* written next to the original
C7_Witness ==
    /\ t_pc = "exited"
    /\ api_result = "ok"
    /\ api_calls = <<TempPath>>
    /\ transcripts[file_path.stem] = text
    /\ transcripts[TempPath.stem] # text

C9_SlotClearedOnCompletion ==
    recording_process # NoProcess => r_child \in {"running", "zombie"}

\* C9 amended: the slot is empty before the launch, is set only after the
\* child was launched, and is never cleared; a signal delivered after the
\* child has completed finds the handle in the slot and sends no SIGTERM
C9_SlotSetNeverCleared ==
    /\ [](r_child = "none" => recording_process = NoProcess)
    /\ [](r_pc \in {"begin_wait", "wait", "wait_timed", "timeout", "wait_final",
                    "report"} => recording_process # NoProcess)
    /\ [](r_reported => recording_process # NoProcess)
    /\ [][recording_process # NoProcess =>
            recording_process' = recording_process]_vars
    /\ [][(r_signals' = r_signals + 1 /\ r_child = "reaped") =>
            (recording_process # NoProcess /\ r_kills' = r_kills)]_vars

\* C9 witness: a signal was delivered after the child had completed, with
\* the slot still occupied
C9_Witness ==
    /\ "report" \in r_sig_pcs
    /\ r_child = "reaped"
    /\ recording_process # NoProcess

\* C10 as stated: after a signal was delivered while a prompt was waiting,
\* no recording child is ever launched, and the program exits with code 0
C10_PromptInterruptExits ==
    (r_sig_pcs \cap PromptPcs # {}) =>
        /\ r_popen = "none"
        /\ r_child = "none"
        /\ r_pc = "exited" => r_exit = 0

\* C11: a payload is submitted to the API only if the credential is set and
\* the size measured for the submitted file (the original, or the transcoded
\* temporary file when one was produced) is at most the ceiling; a run whose
\* transcoded file still exceeds the ceiling makes no API call
C11_SubmitOnlyWithinCeiling ==
    /\ api_calls # <<>> =>
         /\ api_key
         /\ Len(api_calls) = 1
         /\ IF t_converted = "no"
              THEN /\ api_calls[1] = file_path
                   /\ file_size >= 0
                   /\ file_size <= MAX_FILE_SIZE
              ELSE /\ api_calls[1] = temp_file
                   /\ temp_size >= 0
                   /\ temp_size <= MAX_FILE_SIZE
    /\ temp_size > MAX_FILE_SIZE => (api_calls = <<>> /\ api_result = "none")

\* C11 witness: a transcoded file of exactly the ceiling's size was submitted
C11_Witness ==
    /\ api_key
    /\ t_converted = "ok"
    /\ temp_size = MAX_FILE_SIZE
    /\ api_calls = <<TempPath>>

====
